---- MODULE Spec2Model ----
(***************************************************************************)
(* Model of the BrowserPool of src/services/BrowserPool.js: a bounded pool *)
(* of Puppeteer browsers shared by concurrent extraction requests.         *)
(*                                                                         *)
(* Node runs the pool on one event loop: the code between two `await`s is  *)
(* one atomic step.  Every action below is one such synchronous stretch of *)
(* a method, or one callback (timer, interval) the event loop runs.        *)
(*                                                                         *)
(* A caller is one invocation of acquire(), followed (when it obtained a   *)
(* browser) by at most one release() of that browser, as CSSProcessor.js   *)
(* does in its try/finally.  SpecMisuse adds release() calls on browsers   *)
(* the releasing party does not hold (a double release); SpecInit adds a   *)
(* call of initialize().  shutdown() is invoked once, with a callback      *)
(* onGracePeriodStart.                                                     *)
(***************************************************************************)
EXTENDS Integers, Sequences, FiniteSets, TLC

\* ---- bounds of the model ----
NumCallers == 4      \* acquire() invocations, numbered in the order they are made
FewCallers == 3      \* acquire() invocations in the specifications that need one waiter at most
NumWorkers == 3      \* browsers puppeteer.launch can hand out
MaxStray == 1        \* release() calls on a browser the caller does not hold

\* ---- configuration of the pool ----
maxPoolSize == 2
minPoolSize == 1

Callers == 1..NumCallers
Workers == 1..NumWorkers
NoBrowser == 0

VARIABLES
    availableBrowsers,  \* this.availableBrowsers: array used as a stack
    busyBrowsers,       \* this.busyBrowsers: Set
    waitingQueue,       \* this.waitingQueue: entries {resolve, reject, timeoutId}, named by caller
    isShuttingDown,     \* this.isShuttingDown
    stats,              \* this.stats
    idleTimers,         \* pending setTimeout callbacks of _scheduleIdleCheck, per browser
    connected,          \* browser.isConnected() of each launched browser
    closeCalls,         \* how often browser.close() was invoked on each browser
    pc,                 \* where each acquire() invocation stands
    got,                \* the browser an acquire() resolved with, until the caller releases it
    sd,                 \* where the shutdown() invocation stands
    strays,             \* release() calls made so far on a browser not held
    target,             \* history: the browser a so far undisturbed acquire() must reuse
    waitTimeouts,       \* callers whose setTimeout of acquire() line 161 is pending
    graceCalls,         \* the busy counts onGracePeriodStart was invoked with, in order
    init,               \* where the initialize() invocation stands
    initPending,        \* _createBrowser() calls of initialize() not yet settled
    sdAgain,            \* where a second call of shutdown() stands
    snapshot            \* what getStats() returned last

vars == <<availableBrowsers, busyBrowsers, waitingQueue, isShuttingDown, stats,
          idleTimers, connected, closeCalls, pc, got, sd, strays, target,
          waitTimeouts, graceCalls, init, initPending, sdAgain, snapshot>>

pool == <<availableBrowsers, busyBrowsers, waitingQueue>>

\* ---- helpers ----
Range(s) == {s[i] : i \in 1..Len(s)}

\* Array.prototype.indexOf, 1-based, 0 when absent
IndexOf(s, x) ==
    IF x \in Range(s) THEN CHOOSE i \in 1..Len(s) : s[i] = x /\ \A j \in 1..(i-1) : s[j] # x
    ELSE 0

\* Array.prototype.splice(index, 1)
RemoveAt(s, i) == SubSeq(s, 1, i-1) \o SubSeq(s, i+1, Len(s))

\* mutant of Last: the oldest entry of the stack is taken (shift for pop)
Oldest(s) == s[1]

\* Array.prototype.pop: the array without its last element
Front(s) == SubSeq(s, 1, Len(s)-1)
Last(s) == s[Len(s)]

\* browsers puppeteer.launch has resolved with so far
Launched == 1..stats.created

\* the topmost connected browser of the stack, NoBrowser when there is none
MostRecentConnected(s) ==
    IF \E i \in 1..Len(s) : connected[s[i]]
    THEN s[CHOOSE i \in 1..Len(s) : connected[s[i]] /\ \A j \in (i+1)..Len(s) : ~connected[s[j]]]
    ELSE NoBrowser

\* getStats() has not been called: no counts
NoStats == [created |-> 0, reused |-> 0, destroyed |-> 0, errors |-> 0,
            available |-> 0, busy |-> 0, waiting |-> 0, total |-> 0]

Init ==
    /\ availableBrowsers = <<>>
    /\ busyBrowsers = {}
    /\ waitingQueue = <<>>
    /\ isShuttingDown = FALSE
    /\ stats = [created |-> 0, reused |-> 0, destroyed |-> 0, errors |-> 0]
    /\ idleTimers = [b \in Workers |-> 0]
    /\ connected = [b \in Workers |-> FALSE]
    /\ closeCalls = [b \in Workers |-> 0]
    /\ pc = [c \in Callers |-> "idle"]
    /\ got = [c \in Callers |-> NoBrowser]
    /\ sd = "none"
    /\ strays = 0
    /\ target = [c \in Callers |-> NoBrowser]
    /\ waitTimeouts = {}
    /\ graceCalls = <<>>
    /\ init = "none"
    /\ initPending = 0
    /\ sdAgain = "none"
    /\ snapshot = NoStats

\* ---- _destroyBrowser ----
\* how often b occurs in the array s
Count(s, b) == Cardinality({i \in 1..Len(s) : s[i] = b})

RECURSIVE SumUpTo(_, _)
SumUpTo(f, k) == IF k = 0 THEN 0 ELSE f[k] + SumUpTo(f, k - 1)

\* _destroyBrowser(b) called n[b] times for every browser b, in one synchronous
\* stretch.  A call on a connected browser invokes close(); a call whose close()
\* rejects is logged, every other call adds one to stats.destroyed.
CloseCallsAfterDestroy(n) ==
    [b \in Workers |-> IF connected[b] THEN closeCalls[b] + n[b] ELSE closeCalls[b]]

ClosesMade(n) == SumUpTo([b \in Workers |-> IF connected[b] THEN n[b] ELSE 0], NumWorkers)

DestroyBrowsers(n) ==
    /\ closeCalls' = CloseCallsAfterDestroy(n)
    /\ \E rejected \in 0..ClosesMade(n) :
         stats' = [stats EXCEPT !.destroyed = @ + SumUpTo(n, NumWorkers) - rejected]

\* ---- initialize ----
\* initialize() up to its await (lines 76-85): minPoolSize calls of
\* _createBrowser() are started and awaited together
Initialize ==
    /\ init = "none"
    /\ init' = "creating"
    /\ initPending' = minPoolSize
    /\ target' = [d \in Callers |-> NoBrowser]
    /\ UNCHANGED <<availableBrowsers, busyBrowsers, waitingQueue, isShuttingDown, stats,
                   idleTimers, connected, closeCalls, pc, got, sd, strays, waitTimeouts,
                   graceCalls, sdAgain, snapshot>>

\* a puppeteer.launch of initialize() resolved: _createBrowser counts the browser
\* and returns it (lines 258-269); initialize() does nothing with the value, and
\* returns when the last of its launches has resolved (lines 85-86)
InitLaunchOk ==
    /\ initPending > 0
    /\ stats.created < NumWorkers
    /\ stats' = [stats EXCEPT !.created = @ + 1]
    /\ connected' = [connected EXCEPT ![stats.created + 1] = TRUE]
    /\ initPending' = initPending - 1
    /\ init' = IF init = "creating" /\ initPending = 1 THEN "done" ELSE init
    /\ target' = [d \in Callers |-> NoBrowser]
    /\ UNCHANGED <<availableBrowsers, busyBrowsers, waitingQueue, isShuttingDown, idleTimers,
                   closeCalls, pc, got, sd, strays, waitTimeouts, graceCalls, sdAgain, snapshot>>

\* a puppeteer.launch of initialize() rejected: _createBrowser counts the error
\* (line 271), Promise.all rejects and initialize() rethrows (lines 87-90)
InitLaunchFail ==
    /\ initPending > 0
    /\ stats' = [stats EXCEPT !.errors = @ + 1]
    /\ initPending' = initPending - 1
    /\ init' = IF init = "creating" THEN "failed" ELSE init
    /\ target' = [d \in Callers |-> NoBrowser]
    /\ UNCHANGED <<availableBrowsers, busyBrowsers, waitingQueue, isShuttingDown, idleTimers,
                   connected, closeCalls, pc, got, sd, strays, waitTimeouts, graceCalls, sdAgain, snapshot>>

\* ---- acquire ----
\* mutant of HasCapacity: off by one, a browser is created at maxPoolSize too
HasCapacityOffByOne == Cardinality(busyBrowsers) + Len(availableBrowsers) <= maxPoolSize

\* line 143: room for one more browser
HasCapacity == Cardinality(busyBrowsers) + Len(availableBrowsers) < maxPoolSize

\* lines 99-101: the pool is draining
AcquireReject(c) ==
    /\ pc' = [pc EXCEPT ![c] = "rejectedShutdown"]
    /\ UNCHANGED <<availableBrowsers, busyBrowsers, waitingQueue, stats, closeCalls, got,
                   waitTimeouts>>

\* mutant of AcquireDiscard: the disconnected browser is closed but left on the
\* stack, where the retry finds it again
AcquireDiscardNoPop(c, browser) ==
    /\ closeCalls' = [closeCalls EXCEPT ![browser] = @ + 1]
    /\ pc' = [pc EXCEPT ![c] = "closing"]
    /\ UNCHANGED <<availableBrowsers, busyBrowsers, waitingQueue, stats, got, waitTimeouts>>

\* mutant of AcquireDiscard: the disconnected browser is dropped without close()
AcquireDiscardNoClose(c, browser) ==
    /\ availableBrowsers' = Front(availableBrowsers)
    /\ pc' = [pc EXCEPT ![c] = "closing"]
    /\ UNCHANGED <<busyBrowsers, waitingQueue, stats, closeCalls, got, waitTimeouts>>

\* lines 114-123: the popped browser is disconnected; close() is awaited (its
\* failure ignored) and acquire() calls itself
AcquireDiscard(c, browser) ==
    /\ availableBrowsers' = Front(availableBrowsers)
    /\ closeCalls' = [closeCalls EXCEPT ![browser] = @ + 1]
    /\ pc' = [pc EXCEPT ![c] = "closing"]
    /\ UNCHANGED <<busyBrowsers, waitingQueue, stats, got, waitTimeouts>>

\* mutant of AcquireReuse: the browser is read off the stack but not popped
AcquireReuseNoPop(c, browser) ==
    /\ busyBrowsers' = busyBrowsers \cup {browser}
    /\ stats' = [stats EXCEPT !.reused = @ + 1]
    /\ pc' = [pc EXCEPT ![c] = "holding"]
    /\ got' = [got EXCEPT ![c] = browser]
    /\ UNCHANGED <<availableBrowsers, waitingQueue, closeCalls, waitTimeouts>>

\* lines 126-133: the popped browser is connected and is handed out
AcquireReuse(c, browser) ==
    /\ availableBrowsers' = Front(availableBrowsers)
    /\ busyBrowsers' = busyBrowsers \cup {browser}
    /\ stats' = [stats EXCEPT !.reused = @ + 1]
    /\ pc' = [pc EXCEPT ![c] = "holding"]
    /\ got' = [got EXCEPT ![c] = browser]
    /\ UNCHANGED <<waitingQueue, closeCalls, waitTimeouts>>

\* lines 143-145: _createBrowser() is awaited; nothing is reserved meanwhile
AcquireStartCreate(c) ==
    /\ pc' = [pc EXCEPT ![c] = "creating"]
    /\ UNCHANGED <<availableBrowsers, busyBrowsers, waitingQueue, stats, closeCalls, got,
                   waitTimeouts>>

\* lines 160-170: the caller is queued and its timeout armed
AcquireEnqueue(c) ==
    /\ waitingQueue' = Append(waitingQueue, c)
    /\ waitTimeouts' = waitTimeouts \cup {c}
    /\ pc' = [pc EXCEPT ![c] = "waiting"]
    /\ UNCHANGED <<availableBrowsers, busyBrowsers, stats, closeCalls, got>>

\* lines 103-170.  The lookup of the popped browser in this.idleTimeouts finds
\* nothing (see IdleTimerFires); the else branch of lines 134-139 cannot be
\* taken, isConnected() having just answered.
AcquireFromPool(c) ==
    IF Len(availableBrowsers) > 0
    THEN IF ~connected[Last(availableBrowsers)]
         THEN AcquireDiscard(c, Last(availableBrowsers))
         ELSE AcquireReuse(c, Last(availableBrowsers))
    ELSE IF HasCapacity
    THEN AcquireStartCreate(c)
    ELSE AcquireEnqueue(c)

\* mutant of AcquireBody: the draining flag is not looked at
AcquireBodyNoGuard(c) == AcquireFromPool(c)

\* The synchronous stretch of acquire() from its entry (first call, or the
\* recursive call after the close() of a disconnected browser settled).
AcquireBody(c) ==
    IF isShuttingDown THEN AcquireReject(c) ELSE AcquireFromPool(c)

\* history: a first call records the browser it has to reuse; every step of
\* anything else than this invocation clears the record
TargetAfter(c, t) == [d \in Callers |-> IF d = c THEN t ELSE NoBrowser]

NoTarget == [d \in Callers |-> NoBrowser]

\* callers are numbered in the order in which they invoke acquire()
Acquire(c) ==
    /\ pc[c] = "idle"
    /\ \A d \in 1..(c-1) : pc[d] # "idle"
    /\ AcquireBody(c)
    /\ target' = TargetAfter(c, IF isShuttingDown THEN NoBrowser
                                ELSE MostRecentConnected(availableBrowsers))
    /\ UNCHANGED <<isShuttingDown, idleTimers, connected, sd, strays, graceCalls, init, initPending, sdAgain, snapshot>>

AcquireRetry(c) ==
    /\ pc[c] = "closing"
    /\ AcquireBody(c)
    /\ target' = TargetAfter(c, IF isShuttingDown THEN NoBrowser ELSE target[c])
    /\ UNCHANGED <<isShuttingDown, idleTimers, connected, sd, strays, graceCalls, init, initPending, sdAgain, snapshot>>

\* puppeteer.launch resolved: _createBrowser counts it (line 263), acquire()
\* adds it to busy and returns it (lines 146-151)
CreateOk(c) ==
    /\ pc[c] = "creating"
    /\ stats.created < NumWorkers
    /\ LET browser == stats.created + 1 IN
       /\ stats' = [stats EXCEPT !.created = @ + 1]
       /\ connected' = [connected EXCEPT ![browser] = TRUE]
       /\ busyBrowsers' = busyBrowsers \cup {browser}
       /\ got' = [got EXCEPT ![c] = browser]
    /\ pc' = [pc EXCEPT ![c] = "holding"]
    /\ target' = TargetAfter(c, target[c])
    /\ UNCHANGED <<availableBrowsers, waitingQueue, isShuttingDown, idleTimers, closeCalls, sd,
                   strays, waitTimeouts, graceCalls, init, initPending, sdAgain, snapshot>>

\* mutant of CreateFail: the slot of the failed launch stays taken
CreateFailKeepsSlot(c) ==
    /\ pc[c] = "creating"
    /\ stats' = [stats EXCEPT !.errors = @ + 1]
    /\ busyBrowsers' = busyBrowsers \cup {stats.created + 1}
    /\ pc' = [pc EXCEPT ![c] = "createErr"]
    /\ target' = TargetAfter(c, target[c])
    /\ UNCHANGED <<availableBrowsers, waitingQueue, isShuttingDown, idleTimers,
                   connected, closeCalls, got, sd, strays, waitTimeouts, graceCalls, init,
                   initPending, sdAgain, snapshot>>

\* puppeteer.launch rejected: _createBrowser counts the error (line 271),
\* acquire() rethrows it wrapped (lines 152-155)
CreateFail(c) ==
    /\ pc[c] = "creating"
    /\ stats' = [stats EXCEPT !.errors = @ + 1]
    /\ pc' = [pc EXCEPT ![c] = "createErr"]
    /\ target' = TargetAfter(c, target[c])
    /\ UNCHANGED <<availableBrowsers, busyBrowsers, waitingQueue, isShuttingDown, idleTimers,
                   connected, closeCalls, got, sd, strays, waitTimeouts, graceCalls, init,
                   initPending, sdAgain, snapshot>>

\* mutant of WaiterTimeout: the callback drops the head of the queue, whoever it is
WaiterTimeoutDropsHead(c) ==
    /\ c \in waitTimeouts
    /\ waitTimeouts' = waitTimeouts \ {c}
    /\ waitingQueue' = IF waitingQueue # <<>> THEN Tail(waitingQueue) ELSE waitingQueue
    /\ pc' = [pc EXCEPT ![c] = IF @ = "waiting" THEN "timeoutErr" ELSE @]
    /\ target' = NoTarget
    /\ UNCHANGED <<availableBrowsers, busyBrowsers, isShuttingDown, stats, idleTimers,
                   connected, closeCalls, got, sd, strays, graceCalls, init, initPending, sdAgain, snapshot>>

\* the setTimeout callback of a queued acquire() (lines 161-167): the caller's own
\* entry is looked up and spliced out, and its promise rejected (which does
\* nothing to a promise that is already settled)
WaiterTimeout(c) ==
    /\ c \in waitTimeouts
    /\ waitTimeouts' = waitTimeouts \ {c}
    /\ LET index == IndexOf(waitingQueue, c) IN
       waitingQueue' = IF index # 0 THEN RemoveAt(waitingQueue, index) ELSE waitingQueue
    /\ pc' = [pc EXCEPT ![c] = IF @ = "waiting" THEN "timeoutErr" ELSE @]
    /\ target' = NoTarget
    /\ UNCHANGED <<availableBrowsers, busyBrowsers, isShuttingDown, stats, idleTimers,
                   connected, closeCalls, got, sd, strays, graceCalls, init, initPending, sdAgain, snapshot>>

\* ---- release ----
\* mutant of HeadWaiter: the newest entry is served (pop for shift)
NewestWaiter(q) == q[Len(q)]

\* line 200: waitingQueue.shift() takes the oldest entry
HeadWaiter(q) == Head(q)

\* mutant of ReleaseDisconnected: the dead browser is handed to the head waiter
ReleaseDisconnectedServes(browser, pcAfter, gotAfter) ==
    /\ closeCalls' = [closeCalls EXCEPT ![browser] = @ + 1]
    /\ IF Len(waitingQueue) > 0
       THEN /\ waitingQueue' = Tail(waitingQueue)
            /\ waitTimeouts' = waitTimeouts \ {Head(waitingQueue)}
            /\ busyBrowsers' = busyBrowsers
            /\ pc' = [pcAfter EXCEPT ![Head(waitingQueue)] = "holding"]
            /\ got' = [gotAfter EXCEPT ![Head(waitingQueue)] = browser]
       ELSE /\ busyBrowsers' = busyBrowsers \ {browser}
            /\ pc' = pcAfter
            /\ got' = gotAfter
            /\ UNCHANGED <<waitingQueue, waitTimeouts>>
    /\ UNCHANGED <<availableBrowsers, idleTimers>>

\* lines 188-196: the browser crashed while in use; close() is awaited, its
\* failure ignored
ReleaseDisconnected(browser, pcAfter, gotAfter) ==
    /\ busyBrowsers' = busyBrowsers \ {browser}
    /\ closeCalls' = [closeCalls EXCEPT ![browser] = @ + 1]
    /\ pc' = pcAfter
    /\ got' = gotAfter
    /\ UNCHANGED <<availableBrowsers, waitingQueue, idleTimers, waitTimeouts>>

\* mutant of ReleaseHandoff: the served waiter's timeout is left armed
ReleaseHandoffKeepsTimeout(browser, pcAfter, gotAfter) ==
    LET waiter == HeadWaiter(waitingQueue) IN
    /\ waitingQueue' = Tail(waitingQueue)
    /\ busyBrowsers' = (busyBrowsers \ {browser}) \cup {browser}
    /\ pc' = [pcAfter EXCEPT ![waiter] = "holding"]
    /\ got' = [gotAfter EXCEPT ![waiter] = browser]
    /\ UNCHANGED <<availableBrowsers, idleTimers, closeCalls, waitTimeouts>>

\* mutant of ReleaseHandoff: the browser also goes onto the stack, with a timer
ReleaseHandoffViaPool(browser, pcAfter, gotAfter) ==
    LET waiter == HeadWaiter(waitingQueue) IN
    /\ waitingQueue' = Tail(waitingQueue)
    /\ waitTimeouts' = waitTimeouts \ {waiter}
    /\ busyBrowsers' = (busyBrowsers \ {browser}) \cup {browser}
    /\ availableBrowsers' = Append(availableBrowsers, browser)
    /\ idleTimers' = [idleTimers EXCEPT ![browser] = @ + 1]
    /\ pc' = [pcAfter EXCEPT ![waiter] = "holding"]
    /\ got' = [gotAfter EXCEPT ![waiter] = browser]
    /\ UNCHANGED closeCalls

\* lines 199-210: handoff to the oldest queued acquire(), whose timeout is cleared
ReleaseHandoff(browser, pcAfter, gotAfter) ==
    LET waiter == HeadWaiter(waitingQueue) IN
    /\ waitingQueue' = Tail(waitingQueue)
    /\ waitTimeouts' = waitTimeouts \ {waiter}
    /\ busyBrowsers' = (busyBrowsers \ {browser}) \cup {browser}
    /\ pc' = [pcAfter EXCEPT ![waiter] = "holding"]
    /\ got' = [gotAfter EXCEPT ![waiter] = browser]
    /\ UNCHANGED <<availableBrowsers, idleTimers, closeCalls>>

\* lines 234-242: back onto the stack, with a fresh idle timer
ReleaseToPool(browser, pcAfter, gotAfter) ==
    /\ busyBrowsers' = busyBrowsers \ {browser}
    /\ availableBrowsers' = Append(availableBrowsers, browser)
    /\ idleTimers' = [idleTimers EXCEPT ![browser] = @ + 1]
    /\ pc' = pcAfter
    /\ got' = gotAfter
    /\ UNCHANGED <<waitingQueue, closeCalls, waitTimeouts>>

\* release(browser); pcAfter and gotAfter are pc and got with the releasing
\* caller already updated (it keeps no reference to the browser it released).
\* isConnected() answers the same at lines 188 and 204, nothing running in
\* between, so lines 211-230 are not taken.
ReleaseBody(browser, pcAfter, gotAfter) ==
    IF ~connected[browser]
    THEN ReleaseDisconnected(browser, pcAfter, gotAfter)
    ELSE IF Len(waitingQueue) > 0
    THEN ReleaseHandoff(browser, pcAfter, gotAfter)
    ELSE ReleaseToPool(browser, pcAfter, gotAfter)

\* mutant of ReleaseSettled: a rejection of close() reaches the caller
ReleaseRethrows(closeRejected) == IF closeRejected THEN "releaseErr" ELSE "released"

\* how the promise of release() settles.  The only await of release() outside
\* lines 211-230 is the close() of lines 190-194, whose rejection is caught and
\* dropped: release() resolves either way.
ReleaseSettled(closeRejected) == "released"

\* the caller that holds a browser releases it
Release(c) ==
    /\ pc[c] = "holding"
    /\ \E closeRejected \in BOOLEAN :
         ReleaseBody(got[c], [pc EXCEPT ![c] = ReleaseSettled(closeRejected)],
                     [got EXCEPT ![c] = NoBrowser])
    /\ target' = NoTarget
    /\ UNCHANGED <<isShuttingDown, stats, connected, sd, strays, graceCalls, init, initPending, sdAgain, snapshot>>

\* ---- release: the browser dies during the handoff (lines 211-230) ----
\* mutant of Requeue: the waiter is put back behind the others (push for unshift)
RequeueAtTail(q, waiter) == Append(q, waiter)

\* line 215: waitingQueue.unshift puts the entry back at the front
Requeue(q, waiter) == <<waiter>> \o q

\* release(browser) with a browser that answers isConnected() = true at line
\* 188 and false at line 204, and false from then on.  The head entry was
\* shifted out and its timeout cleared (lines 200-201); _destroyBrowser finds
\* the browser disconnected, calls no close() and counts it (lines 285-288);
\* the entry is put back (line 215) and _createBrowser() is awaited (line 219).
\* Nothing but microtasks runs between the shift and the unshift.
ReleaseDied(c) ==
    /\ pc[c] = "holding"
    /\ connected[got[c]]
    /\ Len(waitingQueue) > 0
    /\ LET browser == got[c]
           waiter == HeadWaiter(waitingQueue)
       IN  /\ busyBrowsers' = busyBrowsers \ {browser}
           /\ connected' = [connected EXCEPT ![browser] = FALSE]
           /\ waitTimeouts' = waitTimeouts \ {waiter}
           /\ waitingQueue' = Requeue(Tail(waitingQueue), waiter)
    /\ stats' = [stats EXCEPT !.destroyed = @ + 1]
    /\ pc' = [pc EXCEPT ![c] = "replacing"]
    /\ got' = [got EXCEPT ![c] = NoBrowser]
    /\ target' = NoTarget
    /\ UNCHANGED <<availableBrowsers, isShuttingDown, idleTimers, closeCalls, sd, strays,
                   graceCalls, init, initPending, sdAgain, snapshot>>

\* the replacement launch resolved (lines 219-225): the entry now at the head
\* of the queue, if there is one, is shifted out, its timeout cleared, and it
\* is resolved with the new browser, which enters busyBrowsers; with an empty
\* queue the new browser is dropped.  release() resolves.
ReplaceOk(c) ==
    /\ pc[c] = "replacing"
    /\ stats.created < NumWorkers
    /\ LET newBrowser == stats.created + 1 IN
       /\ stats' = [stats EXCEPT !.created = @ + 1]
       /\ connected' = [connected EXCEPT ![newBrowser] = TRUE]
       /\ IF Len(waitingQueue) > 0
          THEN LET nextWaiter == HeadWaiter(waitingQueue) IN
               /\ waitingQueue' = Tail(waitingQueue)
               /\ waitTimeouts' = waitTimeouts \ {nextWaiter}
               /\ busyBrowsers' = busyBrowsers \cup {newBrowser}
               /\ pc' = [pc EXCEPT ![c] = "released", ![nextWaiter] = "holding"]
               /\ got' = [got EXCEPT ![nextWaiter] = newBrowser]
          ELSE /\ pc' = [pc EXCEPT ![c] = "released"]
               /\ UNCHANGED <<waitingQueue, waitTimeouts, busyBrowsers, got>>
    /\ target' = NoTarget
    /\ UNCHANGED <<availableBrowsers, isShuttingDown, idleTimers, closeCalls, sd, strays,
                   graceCalls, init, initPending, sdAgain, snapshot>>

\* the replacement launch rejected (lines 226-229): _createBrowser counts the
\* error, release() logs it and resolves; the entry stays where it is
ReplaceFail(c) ==
    /\ pc[c] = "replacing"
    /\ stats' = [stats EXCEPT !.errors = @ + 1]
    /\ pc' = [pc EXCEPT ![c] = "released"]
    /\ target' = NoTarget
    /\ UNCHANGED <<availableBrowsers, busyBrowsers, waitingQueue, isShuttingDown, idleTimers,
                   connected, closeCalls, got, sd, strays, waitTimeouts, graceCalls, init,
                   initPending, sdAgain, snapshot>>

\* release() of a launched browser by a party that does not hold it
StrayRelease(browser) ==
    /\ strays < MaxStray
    /\ browser \in Launched
    /\ ReleaseBody(browser, pc, got)
    /\ strays' = strays + 1
    /\ target' = NoTarget
    /\ UNCHANGED <<isShuttingDown, stats, connected, sd, graceCalls, init, initPending, sdAgain, snapshot>>

\* ---- idle reclamation ----
\* mutant of IdleTimerFires: the browser is destroyed at minPoolSize too
IdleTimerFiresAtFloor(browser) ==
    /\ idleTimers[browser] > 0
    /\ idleTimers' = [idleTimers EXCEPT ![browser] = @ - 1]
    /\ LET index == IndexOf(availableBrowsers, browser) IN
       IF index # 0 /\ Len(availableBrowsers) >= minPoolSize
       THEN /\ availableBrowsers' = RemoveAt(availableBrowsers, index)
            /\ DestroyBrowsers([b \in Workers |-> IF b = browser THEN 1 ELSE 0])
       ELSE UNCHANGED <<availableBrowsers, closeCalls, stats>>
    /\ target' = NoTarget
    /\ UNCHANGED <<busyBrowsers, waitingQueue, isShuttingDown, connected, pc, got, sd, strays,
                   waitTimeouts, graceCalls, init, initPending, sdAgain, snapshot>>

\* the setTimeout callback of _scheduleIdleCheck(browser).  acquire() looks the
\* timer up in this.idleTimeouts, which nothing ever fills, so a timer is never
\* cancelled and fires idleTimeout after the release that armed it.
IdleTimerFires(browser) ==
    /\ idleTimers[browser] > 0
    /\ idleTimers' = [idleTimers EXCEPT ![browser] = @ - 1]
    /\ LET index == IndexOf(availableBrowsers, browser) IN
       IF index # 0 /\ Len(availableBrowsers) > minPoolSize
       THEN /\ availableBrowsers' = RemoveAt(availableBrowsers, index)
            /\ DestroyBrowsers([b \in Workers |-> IF b = browser THEN 1 ELSE 0])
       ELSE UNCHANGED <<availableBrowsers, closeCalls, stats>>
    /\ target' = NoTarget
    /\ UNCHANGED <<busyBrowsers, waitingQueue, isShuttingDown, connected, pc, got, sd, strays,
                   waitTimeouts, graceCalls, init, initPending, sdAgain, snapshot>>

\* mutant of Excess: the sweep destroys the browsers it keeps
ExcessKept(s) == SubSeq(s, 1, minPoolSize)

\* what cleanupIdleBrowsers pops: everything above the first minPoolSize entries
Excess(s) == SubSeq(s, minPoolSize + 1, Len(s))

\* mutant of cleanupIdleBrowsers: one browser is popped per sweep (if for while)
cleanupOne ==
    /\ sd = "none"
    /\ ~isShuttingDown
    /\ Len(availableBrowsers) > minPoolSize
    /\ availableBrowsers' = Front(availableBrowsers)
    /\ DestroyBrowsers([b \in Workers |-> IF b = Last(availableBrowsers) THEN 1 ELSE 0])
    /\ target' = NoTarget
    /\ UNCHANGED <<busyBrowsers, waitingQueue, isShuttingDown, idleTimers, connected, pc, got,
                   sd, strays, waitTimeouts, graceCalls, init, initPending, sdAgain, snapshot>>

\* mutant of cleanupIdleBrowsers: the loop stops one browser too late
cleanupBelowFloor ==
    /\ sd = "none"
    /\ ~isShuttingDown
    /\ Len(availableBrowsers) >= minPoolSize
    /\ availableBrowsers' = SubSeq(availableBrowsers, 1, minPoolSize - 1)
    /\ DestroyBrowsers([b \in Workers |->
                           Count(SubSeq(availableBrowsers, minPoolSize, Len(availableBrowsers)), b)])
    /\ target' = NoTarget
    /\ UNCHANGED <<busyBrowsers, waitingQueue, isShuttingDown, idleTimers, connected, pc, got,
                   sd, strays, waitTimeouts, graceCalls, init, initPending, sdAgain, snapshot>>

\* the setInterval callback, cleanupIdleBrowsers(); the interval runs until
\* shutdown() clears it.  With nothing above minPoolSize it changes nothing.
cleanupIdleBrowsers ==
    /\ sd = "none"
    /\ ~isShuttingDown
    /\ Len(availableBrowsers) > minPoolSize
    /\ availableBrowsers' = SubSeq(availableBrowsers, 1, minPoolSize)
    /\ DestroyBrowsers([b \in Workers |-> Count(Excess(availableBrowsers), b)])
    /\ target' = NoTarget
    /\ UNCHANGED <<busyBrowsers, waitingQueue, isShuttingDown, idleTimers, connected, pc, got,
                   sd, strays, waitTimeouts, graceCalls, init, initPending, sdAgain, snapshot>>

\* ---- the browser process ----
\* a launched browser crashes or its connection drops (also: a close() completes)
Disconnect(browser) ==
    /\ browser \in Launched
    /\ connected[browser]
    /\ connected' = [connected EXCEPT ![browser] = FALSE]
    /\ target' = NoTarget
    /\ UNCHANGED <<availableBrowsers, busyBrowsers, waitingQueue, isShuttingDown, stats,
                   idleTimers, closeCalls, pc, got, sd, strays, waitTimeouts, graceCalls,
                   init, initPending, sdAgain, snapshot>>

\* ---- shutdown ----
\* lines 384-393: _destroyBrowser on every entry of [...available, ...busy],
\* then the wait for all of them to settle
DestroyPhase ==
    /\ DestroyBrowsers([b \in Workers |-> Count(availableBrowsers, b)
                                             + (IF b \in busyBrowsers THEN 1 ELSE 0)])
    /\ sd' = "settling"

\* mutant of RejectWaiters: the newest entry is left in the queue, still pending
RejectWaitersButLast ==
    /\ waitingQueue' = IF waitingQueue = <<>> THEN <<>> ELSE <<Last(waitingQueue)>>
    /\ waitTimeouts' = waitTimeouts \ Range(Front(waitingQueue))
    /\ pc' = [c \in Callers |->
                 IF c \in Range(Front(waitingQueue)) THEN "waiterRejected" ELSE pc[c]]

\* lines 357-362: every entry is shifted out, its timeout cleared, its promise
\* rejected
RejectWaiters ==
    /\ waitingQueue' = <<>>
    /\ waitTimeouts' = waitTimeouts \ Range(waitingQueue)
    /\ pc' = [c \in Callers |-> IF c \in Range(waitingQueue) THEN "waiterRejected" ELSE pc[c]]

\* mutant of ShutdownStart: the grace period is skipped when nobody needs it
\* any more, the destroy phase starting at once whatever busyBrowsers holds
ShutdownStartNoGrace ==
    /\ sd = "none"
    /\ isShuttingDown' = TRUE
    /\ RejectWaiters
    /\ DestroyPhase
    /\ target' = NoTarget
    /\ UNCHANGED <<availableBrowsers, busyBrowsers, idleTimers, connected, got, strays,
                   graceCalls, init, initPending, sdAgain, snapshot>>

\* shutdown({onGracePeriodStart}) up to its first await (lines 349-381, or
\* 349-393 when nothing is busy).  With busy browsers the callback is invoked
\* with busyCount and the grace period; the interval of the sweep is cleared.
ShutdownStart ==
    /\ sd = "none"
    /\ isShuttingDown' = TRUE
    /\ RejectWaiters
    /\ IF Cardinality(busyBrowsers) > 0
       THEN /\ sd' = "grace"
            /\ graceCalls' = Append(graceCalls, Cardinality(busyBrowsers))
            /\ UNCHANGED <<closeCalls, stats>>
       ELSE /\ DestroyPhase
            /\ UNCHANGED graceCalls
    /\ target' = NoTarget
    /\ UNCHANGED <<availableBrowsers, busyBrowsers, idleTimers, connected, got, strays,
                   init, initPending, sdAgain, snapshot>>

\* mutant of GraceOver: an error thrown by the callback ends shutdown()
GraceOverRethrows(callbackThrew) ==
    IF callbackThrew
    THEN sd' = "failed" /\ UNCHANGED <<closeCalls, stats>>
    ELSE DestroyPhase

\* lines 374-384: an error of the callback is caught and logged, the timer of
\* the grace period is awaited, and the destroy phase follows
GraceOver(callbackThrew) == DestroyPhase

\* the callback has settled and the timer of the grace period has fired
GraceElapsed ==
    /\ sd = "grace"
    /\ \E callbackThrew \in BOOLEAN : GraceOver(callbackThrew)
    /\ target' = NoTarget
    /\ UNCHANGED <<availableBrowsers, busyBrowsers, waitingQueue, isShuttingDown, idleTimers,
                   connected, pc, got, strays, waitTimeouts, graceCalls, init, initPending, sdAgain, snapshot>>

\* mutant of ShutdownFinish: busyBrowsers is not cleared
ShutdownFinishKeepsBusy ==
    /\ sd = "settling"
    /\ availableBrowsers' = <<>>
    /\ sd' = "done"
    /\ target' = NoTarget
    /\ UNCHANGED <<busyBrowsers, waitingQueue, isShuttingDown, stats, idleTimers, connected,
                   closeCalls, pc, got, strays, waitTimeouts, graceCalls, init, initPending, sdAgain, snapshot>>

\* lines 393-400: Promise.allSettled(closePromises) resolved, whatever the
\* closes did; both collections are emptied and shutdown() returns
ShutdownFinish ==
    /\ sd = "settling"
    /\ availableBrowsers' = <<>>
    /\ busyBrowsers' = {}
    /\ sd' = "done"
    /\ target' = NoTarget
    /\ UNCHANGED <<waitingQueue, isShuttingDown, stats, idleTimers, connected, closeCalls,
                   pc, got, strays, waitTimeouts, graceCalls, init, initPending, sdAgain, snapshot>>

\* ---- shutdown, called again ----
\* A second BrowserPool.shutdown(), as server.js issues it for a second signal
\* or error (its shutdown(signal) has no guard of its own and passes no
\* options).  Lines 349-381, or 349-393 when nothing is busy: the flag is set
\* again, the queue emptied, and with busy browsers the grace period awaited.
ShutdownAgain ==
    /\ sd # "none"
    /\ sdAgain = "none"
    /\ isShuttingDown' = TRUE
    /\ RejectWaiters
    /\ IF Cardinality(busyBrowsers) > 0
       THEN /\ sdAgain' = "grace"
            /\ UNCHANGED <<closeCalls, stats>>
       ELSE /\ DestroyBrowsers([b \in Workers |-> Count(availableBrowsers, b)
                                                     + (IF b \in busyBrowsers THEN 1 ELSE 0)])
            /\ sdAgain' = "settling"
    /\ target' = NoTarget
    /\ UNCHANGED <<availableBrowsers, busyBrowsers, idleTimers, connected, got, sd, strays,
                   graceCalls, init, initPending, snapshot>>

\* the grace period of the second call is over: its destroy phase (lines
\* 384-393) takes whatever the two collections hold at that moment
GraceElapsedAgain ==
    /\ sdAgain = "grace"
    /\ DestroyBrowsers([b \in Workers |-> Count(availableBrowsers, b)
                                             + (IF b \in busyBrowsers THEN 1 ELSE 0)])
    /\ sdAgain' = "settling"
    /\ target' = NoTarget
    /\ UNCHANGED <<availableBrowsers, busyBrowsers, waitingQueue, isShuttingDown, idleTimers,
                   connected, pc, got, sd, strays, waitTimeouts, graceCalls, init, initPending, snapshot>>

\* lines 393-400 of the second call: its closes have settled, both collections
\* are emptied and it returns
ShutdownAgainFinish ==
    /\ sdAgain = "settling"
    /\ availableBrowsers' = <<>>
    /\ busyBrowsers' = {}
    /\ sdAgain' = "done"
    /\ target' = NoTarget
    /\ UNCHANGED <<waitingQueue, isShuttingDown, stats, idleTimers, connected, closeCalls,
                   pc, got, sd, strays, waitTimeouts, graceCalls, init, initPending, snapshot>>

\* ---- getStats ----
\* mutant of getStats: the queued callers are counted into total
getStatsCountsWaiting ==
    [created |-> stats.created, reused |-> stats.reused,
     destroyed |-> stats.destroyed, errors |-> stats.errors,
     available |-> Len(availableBrowsers),
     busy |-> Cardinality(busyBrowsers),
     waiting |-> Len(waitingQueue),
     total |-> Len(availableBrowsers) + Cardinality(busyBrowsers) + Len(waitingQueue)]

\* lines 331-339: the counters spread into a new object, with the sizes of the
\* three collections and the sum of the first two
getStats ==
    [created |-> stats.created, reused |-> stats.reused,
     destroyed |-> stats.destroyed, errors |-> stats.errors,
     available |-> Len(availableBrowsers),
     busy |-> Cardinality(busyBrowsers),
     waiting |-> Len(waitingQueue),
     total |-> Len(availableBrowsers) + Cardinality(busyBrowsers)]

\* a call of getStats() between two steps of the pool
GetStats ==
    /\ snapshot' = getStats
    /\ target' = NoTarget
    /\ UNCHANGED <<availableBrowsers, busyBrowsers, waitingQueue, isShuttingDown, stats,
                   idleTimers, connected, closeCalls, pc, got, sd, strays, waitTimeouts,
                   graceCalls, init, initPending, sdAgain>>

\* ---- specifications ----
Next ==
    \/ \E c \in Callers : Acquire(c)
    \/ \E c \in Callers : AcquireRetry(c)
    \/ \E c \in Callers : CreateOk(c)
    \/ \E c \in Callers : CreateFail(c)
    \/ \E c \in Callers : WaiterTimeout(c)
    \/ \E c \in Callers : Release(c)
    \/ \E b \in Workers : IdleTimerFires(b)
    \/ cleanupIdleBrowsers
    \/ \E b \in Workers : Disconnect(b)
    \/ ShutdownStart
    \/ GraceElapsed
    \/ ShutdownFinish

Spec == Init /\ [][Next]_vars

\* the pool as in Spec, with FewCallers invocations of acquire() instead of
\* NumCallers (at most one caller can be queued behind maxPoolSize holders)
NextFew ==
    \/ \E c \in 1..FewCallers : Acquire(c)
    \/ \E c \in Callers : AcquireRetry(c)
    \/ \E c \in Callers : CreateOk(c)
    \/ \E c \in Callers : CreateFail(c)
    \/ \E c \in Callers : WaiterTimeout(c)
    \/ \E c \in Callers : Release(c)
    \/ \E b \in Workers : IdleTimerFires(b)
    \/ cleanupIdleBrowsers
    \/ \E b \in Workers : Disconnect(b)
    \/ ShutdownStart
    \/ GraceElapsed
    \/ ShutdownFinish

SpecFew == Init /\ [][NextFew]_vars

\* the pool with NumCallers invocations of acquire(), so that two callers can
\* be queued, and without the idle timers and the sweep, which act on
\* availableBrowsers only
NextQueue ==
    \/ \E c \in Callers : Acquire(c)
    \/ \E c \in Callers : AcquireRetry(c)
    \/ \E c \in Callers : CreateOk(c)
    \/ \E c \in Callers : CreateFail(c)
    \/ \E c \in Callers : WaiterTimeout(c)
    \/ \E c \in Callers : Release(c)
    \/ \E b \in Workers : Disconnect(b)
    \/ ShutdownStart
    \/ GraceElapsed
    \/ ShutdownFinish

SpecQueue == Init /\ [][NextQueue]_vars

\* the pool's operations with callers that also release browsers they do not
\* hold; browsers stay connected and launches succeed
NextMisuse ==
    \/ \E c \in 1..FewCallers : Acquire(c)
    \/ \E c \in Callers : CreateOk(c)
    \/ \E c \in Callers : Release(c)
    \/ \E b \in Workers : StrayRelease(b)
    \/ \E b \in Workers : IdleTimerFires(b)
    \/ cleanupIdleBrowsers
    \/ ShutdownStart
    \/ GraceElapsed
    \/ ShutdownFinish

SpecMisuse == Init /\ [][NextMisuse]_vars

\* the pool with a call of initialize(); browsers stay connected and the
\* launches of acquire() succeed
NextInit ==
    \/ Initialize
    \/ InitLaunchOk
    \/ InitLaunchFail
    \/ \E c \in Callers : Acquire(c)
    \/ \E c \in Callers : CreateOk(c)
    \/ \E c \in Callers : Release(c)
    \/ \E b \in Workers : IdleTimerFires(b)
    \/ cleanupIdleBrowsers

SpecInit == Init /\ [][NextInit]_vars

\* the pool with browsers whose isConnected() can turn false between two calls
\* of one synchronous stretch of release(); launches succeed or fail
NextFlaky ==
    \/ \E c \in Callers : Acquire(c)
    \/ \E c \in Callers : CreateOk(c)
    \/ \E c \in Callers : CreateFail(c)
    \/ \E c \in Callers : WaiterTimeout(c)
    \/ \E c \in Callers : Release(c)
    \/ \E c \in Callers : ReleaseDied(c)
    \/ \E c \in Callers : ReplaceOk(c)
    \/ \E c \in Callers : ReplaceFail(c)

\* what the event loop and the callers guarantee: an armed timeout fires, a
\* launch settles (puppeteer's launch timeout), a caller that holds a browser
\* releases it (the finally of CSSProcessor.js)
Fairness ==
    \A c \in Callers :
        /\ WF_vars(WaiterTimeout(c))
        /\ WF_vars(CreateOk(c) \/ CreateFail(c))
        /\ WF_vars(Release(c) \/ ReleaseDied(c))
        /\ WF_vars(ReplaceOk(c) \/ ReplaceFail(c))

SpecFlaky == Init /\ [][NextFlaky]_vars /\ Fairness

\* the pool with shutdown() called twice; launches succeed and browsers stay
\* connected while their close() is pending
NextTwice ==
    \/ \E c \in 1..FewCallers : Acquire(c)
    \/ \E c \in Callers : CreateOk(c)
    \/ \E c \in Callers : Release(c)
    \/ ShutdownStart
    \/ GraceElapsed
    \/ ShutdownFinish
    \/ ShutdownAgain
    \/ GraceElapsedAgain
    \/ ShutdownAgainFinish

SpecTwice == Init /\ [][NextTwice]_vars

\* the pool observed by getStats(), with FewCallers invocations of acquire();
\* browsers stay connected
NextStats ==
    \/ \E c \in 1..FewCallers : Acquire(c)
    \/ \E c \in Callers : CreateOk(c)
    \/ \E c \in Callers : CreateFail(c)
    \/ \E c \in Callers : WaiterTimeout(c)
    \/ \E c \in Callers : Release(c)
    \/ \E b \in Workers : IdleTimerFires(b)
    \/ cleanupIdleBrowsers
    \/ ShutdownStart
    \/ GraceElapsed
    \/ ShutdownFinish
    \/ GetStats

SpecStats == Init /\ [][NextStats]_vars

TypeOK ==
    /\ availableBrowsers \in Seq(Workers)
    /\ busyBrowsers \subseteq Workers
    /\ waitingQueue \in Seq(Callers)
    /\ isShuttingDown \in BOOLEAN
    /\ pc \in [Callers -> {"idle", "closing", "creating", "waiting", "holding", "released",
                           "rejectedShutdown", "waiterRejected", "createErr", "timeoutErr",
                           "replacing"}]
    /\ got \in [Callers -> Workers \cup {NoBrowser}]
    /\ sd \in {"none", "grace", "settling", "done"}
    /\ waitTimeouts \subseteq Callers
    /\ graceCalls \in Seq(0..NumWorkers)
    /\ init \in {"none", "creating", "done", "failed"}
    /\ initPending \in 0..minPoolSize
    /\ sdAgain \in {"none", "grace", "settling", "done"}
    /\ DOMAIN snapshot = DOMAIN NoStats

\* ======================= claims =======================

\* C1: in every reachable state availableBrowsers.length + busyBrowsers.size is
\* at most maxPoolSize, whatever the interleaving of acquire() and release().
C1_PoolNeverExceedsMax ==
    Len(availableBrowsers) + Cardinality(busyBrowsers) <= maxPoolSize

\* C2: callers releasing only what they hold, and once, no browser is ever in
\* the hands of two callers: two callers that both hold a browser hold
\* different ones.
C2_LentToOneCaller ==
    \A c, d \in Callers :
        (c # d /\ pc[c] = "holding" /\ pc[d] = "holding") => got[c] # got[d]

\* two callers hold browsers at once, one of them a browser that was handed
\* out before (taken from the stack again)
C2_Witness ==
    /\ \E c, d \in Callers : c # d /\ pc[c] = "holding" /\ pc[d] = "holding"
    /\ \E c \in Callers : pc[c] = "released"
    /\ stats.reused > 0

\* C3: no browser is in availableBrowsers and in busyBrowsers at once, after
\* any sequence of acquire, release (of a held browser or not), idle
\* reclamation and shutdown steps.
C3_NeverAvailableAndBusy ==
    Range(availableBrowsers) \cap busyBrowsers = {}

\* C4: release(w) of a connected browser that is not in busyBrowsers leaves
\* availableBrowsers, busyBrowsers and waitingQueue as they were.
C4_UnknownReleaseChangesNothing ==
    [][\A b \in Workers :
          (StrayRelease(b) /\ connected[b] /\ b \notin busyBrowsers) => UNCHANGED pool]_vars

\* C5: queued acquire() calls are served in the order they were queued: a
\* handoff goes to the oldest entry, entries keep their relative order (also
\* when another waiter times out), and a new entry goes behind all others.
C5_FifoOrder ==
    [][LET q == waitingQueue
           r == waitingQueue'
       IN  /\ \A d \in Callers :
                 (pc[d] = "waiting" /\ pc'[d] = "holding") => (q # <<>> /\ d = q[1])
           /\ \A i, j \in 1..Len(q) :
                 (i < j /\ q[i] \in Range(r) /\ q[j] \in Range(r))
                    => IndexOf(r, q[i]) < IndexOf(r, q[j])
           /\ \A d \in Range(r) \ Range(q) :
                 /\ r[Len(r)] = d
                 /\ \A e \in Range(q) : e \in Range(r) => IndexOf(r, e) < Len(r)
           /\ \A i, j \in 1..Len(r) : i # j => r[i] # r[j]
      ]_vars

\* an earlier caller holds a browser that was handed to it by a release (more
\* callers were served than browsers launched or reused) while a later caller
\* is still queued
C5_Witness ==
    /\ waitingQueue # <<>>
    /\ \E d \in Callers : pc[d] = "holding" /\ d < waitingQueue[1]
    /\ stats.reused = 0
    /\ Cardinality({c \in Callers : pc[c] \in {"holding", "released"}}) > stats.created
    /\ \A c \in Callers : pc[c] # "timeoutErr"

\* C6: an acquire() that finds the pool saturated (nothing available, busy +
\* available = maxPoolSize) launches nothing and is queued; a queued caller gets
\* a browser only from the release of a connected browser, and gets that very
\* browser; such a release with a non-empty queue serves the oldest waiter.
C6_SaturatedAcquireWaits ==
    [][/\ \A c \in Callers :
             ( /\ pc[c] \in {"idle", "closing"}
               /\ pc'[c] # pc[c]
               /\ ~isShuttingDown
               /\ availableBrowsers = <<>>
               /\ Cardinality(busyBrowsers) = maxPoolSize )
             => /\ pc'[c] = "waiting"
                /\ waitingQueue' = Append(waitingQueue, c)
                /\ UNCHANGED <<availableBrowsers, busyBrowsers, stats>>
       /\ \A d \in Callers :
             (pc[d] = "waiting" /\ pc'[d] = "holding")
             => /\ stats'.created = stats.created
                /\ \E c \in Callers :
                       /\ pc[c] = "holding" /\ pc'[c] = "released"
                       /\ connected[got[c]]
                       /\ got'[d] = got[c]
       /\ \A c \in Callers :
             (pc[c] = "holding" /\ pc'[c] = "released" /\ connected[got[c]]
                /\ waitingQueue # <<>>)
             => /\ pc'[waitingQueue[1]] = "holding"
                /\ got'[waitingQueue[1]] = got[c]
                /\ got[c] \in busyBrowsers'
      ]_vars

\* maxPoolSize browsers launched, none reused, one caller done and as many
\* callers holding as there are browsers: one of them was queued and served
C6_Witness ==
    /\ stats.created = maxPoolSize
    /\ stats.reused = 0
    /\ Cardinality({c \in Callers : pc[c] = "holding"}) = maxPoolSize
    /\ Cardinality({c \in Callers : pc[c] = "released"}) = 1
    /\ waitingQueue = <<>>
    /\ ~isShuttingDown

\* C7: an acquire() that finds a connected browser in availableBrowsers, and is
\* not overtaken by anything else, ends holding the most recently released
\* connected one: that browser is in busyBrowsers and no longer available,
\* reused went up by one and nothing was launched.
C7_ReuseMostRecent ==
    [][\A c \in Callers :
          /\ target'[c] # NoBrowser => pc'[c] \in {"closing", "holding"}
          /\ (target'[c] # NoBrowser /\ pc'[c] = "holding" /\ pc[c] # "holding")
             => /\ got'[c] = target'[c]
                /\ got'[c] \in busyBrowsers'
                /\ got'[c] \notin Range(availableBrowsers')
                /\ stats'.reused = stats.reused + 1
                /\ stats'.created = stats.created
      ]_vars

\* a caller took the top of a stack of two: the other browser is still there
C7_Witness ==
    \E c \in Callers :
        /\ pc[c] = "holding"
        /\ target[c] # NoBrowser
        /\ got[c] = target[c]
        /\ Len(availableBrowsers) >= 1

\* C8: a browser that acquire() pops and finds disconnected has close() invoked
\* and is afterwards in neither collection and in nobody's hands; the call goes
\* on (it awaits the close and retries).  No disconnected browser ever enters a
\* collection again and only connected browsers are handed out, so it is never
\* returned later.
C8_DisconnectedDiscarded ==
    [][/\ \A c \in Callers :
             ( /\ Acquire(c) \/ AcquireRetry(c)
               /\ ~isShuttingDown
               /\ availableBrowsers # <<>>
               /\ ~connected[availableBrowsers[Len(availableBrowsers)]] )
             => LET b == availableBrowsers[Len(availableBrowsers)] IN
                /\ closeCalls'[b] = closeCalls[b] + 1
                /\ b \notin Range(availableBrowsers')
                /\ b \notin busyBrowsers'
                /\ \A d \in Callers : got'[d] # b
                /\ pc'[c] = "closing"
       /\ \A c \in Callers :
             (pc'[c] = "holding" /\ pc[c] # "holding") => connected'[got'[c]]
       /\ \A b \in Launched :
             ~connected[b] => /\ b \in Range(availableBrowsers') => b \in Range(availableBrowsers)
                              /\ b \in busyBrowsers' => b \in busyBrowsers
      ]_vars

\* one acquire() has discarded two disconnected browsers in a row: both were
\* released into the stack, both are closed and gone, nobody else acquired
C8_Witness ==
    /\ pc = <<"released", "released", "closing", "idle">>
    /\ stats.created = 2 /\ stats.reused = 0 /\ stats.destroyed = 0
    /\ \A b \in 1..2 : ~connected[b] /\ closeCalls[b] = 1 /\ idleTimers[b] = 1
    /\ availableBrowsers = <<>>
    /\ busyBrowsers = {}

\* C9: an acquire() that goes to launch a browser reserves nothing, and when
\* the launch fails it is rejected with the creation error and the three
\* collections are as they were; after a failure an acquire() that finds
\* nothing available and room left goes to launch again.
C9_CreateFailureRestores ==
    [][\A c \in Callers :
          /\ (pc[c] \in {"idle", "closing"} /\ pc'[c] = "creating") => UNCHANGED pool
          /\ (pc[c] = "creating" /\ pc'[c] # "creating") => pc'[c] \in {"holding", "createErr"}
          /\ (pc[c] = "creating" /\ pc'[c] = "createErr") => UNCHANGED pool
          /\ ( /\ stats.errors > 0
               /\ pc[c] = "idle" /\ pc'[c] # "idle"
               /\ ~isShuttingDown
               /\ availableBrowsers = <<>>
               /\ Cardinality(busyBrowsers) < maxPoolSize )
             => pc'[c] = "creating"
      ]_vars

\* a launch failed, and a later caller is launching
C9_Witness ==
    \E c, d \in Callers : c < d /\ pc[c] = "createErr" /\ pc[d] = "creating"

\* C10: an acquire() invoked once shutdown() has been invoked is rejected at
\* once with the shutting-down error: nothing is popped, launched or queued.
C10_AcquireAfterShutdownRejects ==
    [][\A c \in Callers :
          (sd # "none" /\ pc[c] = "idle" /\ pc'[c] # "idle")
          => /\ pc'[c] = "rejectedShutdown"
             /\ UNCHANGED <<availableBrowsers, busyBrowsers, waitingQueue, stats, closeCalls>>
      ]_vars

\* a caller was turned away although a browser was available
C10_Witness ==
    /\ \E c \in Callers : pc[c] = "rejectedShutdown"
    /\ availableBrowsers # <<>>

\* C11: shutdown() empties waitingQueue at its invocation: every caller queued
\* at that moment is rejected (shutting down) and its timeout cleared; from
\* then on nobody is queued or pending as a waiter, and a rejected waiter is
\* never settled a second time.
C11_ShutdownRejectsWaiters ==
    [][/\ (sd = "none" /\ sd' # "none")
          => /\ waitingQueue' = <<>>
             /\ \A c \in Range(waitingQueue) :
                   pc'[c] = "waiterRejected" /\ c \notin waitTimeouts'
       /\ sd' # "none"
          => /\ waitingQueue' = <<>>
             /\ waitTimeouts' = {}
             /\ \A c \in Callers : pc'[c] # "waiting"
       /\ \A c \in Callers : pc[c] = "waiterRejected" => pc'[c] = "waiterRejected"
      ]_vars

\* shutdown() has returned and two callers that were queued have been rejected
C11_Witness ==
    /\ sd = "done"
    /\ Cardinality({c \in Callers : pc[c] = "waiterRejected"}) = 2

\* C12: once shutdown() has returned and no call is in flight (nobody is inside
\* acquire() or holds a browser), no launched browser has had close() invoked
\* twice, and every browser on which close() was never invoked is already
\* disconnected (nothing live is left behind).
C12_ClosedExactlyOnce ==
    (sd = "done" /\ \A c \in Callers : pc[c] \notin {"closing", "creating", "waiting", "holding"})
    => \A b \in Launched :
          /\ closeCalls[b] <= 1
          /\ closeCalls[b] = 0 => ~connected[b]

\* C13: the destroy phase of shutdown() invokes the destroy of every browser
\* that is in availableBrowsers or busyBrowsers when it starts (close() on each
\* connected one), and shutdown() returns only after that phase, with both
\* collections empty.
C13_ShutdownEmptiesPool ==
    [][/\ (sd # "settling" /\ sd' = "settling")
          => \A b \in Range(availableBrowsers) \cup busyBrowsers :
                connected[b] => closeCalls'[b] = closeCalls[b] + 1
       /\ (sd # "done" /\ sd' = "done")
          => /\ sd = "settling"
             /\ availableBrowsers' = <<>>
             /\ busyBrowsers' = {}
      ]_vars

\* the only browser was busy when shutdown() was invoked, its caller released
\* it, connected, before shutdown() returned, and it was closed once
C13_Witness ==
    /\ sd = "done"
    /\ graceCalls = <<1>>
    /\ stats.created = 1 /\ stats.reused = 0
    /\ pc[1] = "released"
    /\ idleTimers[1] = 1
    /\ closeCalls[1] = 1
    /\ availableBrowsers = <<>> /\ busyBrowsers = {}

C18_StaleTimerNeverFires ==
    [][\A b \in Workers :
          ( /\ idleTimers'[b] < idleTimers[b]
            /\ b \in Range(availableBrowsers)
            /\ b \notin Range(availableBrowsers') )
          => idleTimers[b] = 1
      ]_vars

\* C19: the timeout of a queued acquire() rejects that caller and splices its
\* entry out of waitingQueue; the other entries and their order, the other
\* callers, their timeouts, availableBrowsers and busyBrowsers are unchanged.
C19_TimeoutRemovesOwnEntry ==
    [][\A c \in Callers :
          (pc[c] = "waiting" /\ pc'[c] = "timeoutErr")
          => /\ c \in Range(waitingQueue)
             /\ waitingQueue' = SelectSeq(waitingQueue, LAMBDA d : d # c)
             /\ Len(waitingQueue') = Len(waitingQueue) - 1
             /\ \A d \in Callers \ {c} : pc'[d] = pc[d]
             /\ waitTimeouts' = waitTimeouts \ {c}
             /\ got' = got
             /\ availableBrowsers' = availableBrowsers
             /\ busyBrowsers' = busyBrowsers
             /\ stats' = stats
      ]_vars

\* the older of two waiters timed out, the younger one is still queued
C19_Witness ==
    /\ pc[3] = "timeoutErr"
    /\ pc[4] = "waiting"
    /\ waitingQueue = <<4>>
    /\ waitTimeouts = {4}
    /\ pc[1] = "holding" /\ pc[2] = "holding"

\* C20: when initialize() has returned successfully and no acquire() was made,
\* availableBrowsers holds minPoolSize browsers and busyBrowsers is empty.
C20_InitializeFillsPool ==
    (init = "done" /\ \A c \in Callers : pc[c] = "idle")
    => /\ Len(availableBrowsers) = minPoolSize
       /\ busyBrowsers = {}

\* C21: every launched browser that is connected and on which close() was
\* never invoked is in availableBrowsers or in busyBrowsers.
C21_LiveWorkersTracked ==
    \A b \in Launched :
        (connected[b] /\ closeCalls[b] = 0)
        => (b \in Range(availableBrowsers) \/ b \in busyBrowsers)

\* C22: a caller that is queued eventually is not queued any more (it got a
\* browser or was rejected), and a caller that is launching eventually is not.
C22_AcquireSettles ==
    \A c \in Callers :
        /\ (pc[c] = "waiting") ~> (pc[c] # "waiting")
        /\ (pc[c] = "creating") ~> (pc[c] # "creating")

\* C23: while a caller is queued the pool is saturated: availableBrowsers.length
\* + busyBrowsers.size is at least maxPoolSize, so that no acquire() finds room
\* to launch a browser ahead of the queue.
C23_QueueImpliesSaturated ==
    waitingQueue # <<>>
    => Len(availableBrowsers) + Cardinality(busyBrowsers) >= maxPoolSize

\* C24: once shutdown() has returned, availableBrowsers and busyBrowsers are
\* empty, whatever resumes or is called afterwards.
C24_EmptyAfterShutdown ==
    sd = "done" => (availableBrowsers = <<>> /\ busyBrowsers = {})

\* C25: the release of a connected browser with a non-empty queue shifts the
\* head entry out, clears its timeout and resolves it with that browser, which
\* stays in busyBrowsers; availableBrowsers and the idle timers are untouched.
\* In every state, a non-empty queue means an empty availableBrowsers.
C25_DirectHandoff ==
    [][/\ \A c \in Callers :
             ( /\ pc[c] = "holding" /\ pc'[c] = "released"
               /\ connected[got[c]]
               /\ waitingQueue # <<>> )
             => LET waiter == waitingQueue[1] IN
                /\ waitingQueue' = Tail(waitingQueue)
                /\ waiter \notin waitTimeouts'
                /\ pc'[waiter] = "holding"
                /\ got'[waiter] = got[c]
                /\ got[c] \in busyBrowsers'
                /\ availableBrowsers' = availableBrowsers
                /\ idleTimers' = idleTimers
       /\ waitingQueue' # <<>> => availableBrowsers' = <<>>
      ]_vars

\* caller 3 was served by the release of caller 1 while caller 4 stays queued:
\* no idle timer was ever armed
C25_Witness ==
    /\ pc = <<"released", "holding", "holding", "waiting">>
    /\ waitingQueue = <<4>>
    /\ stats.created = 2 /\ stats.reused = 0
    /\ availableBrowsers = <<>>
    /\ \A b \in Workers : idleTimers[b] = 0

\* C26: the release of a disconnected browser removes it from busyBrowsers and
\* invokes close() on it; the browser goes to no collection and to no caller,
\* and waitingQueue, its waiters and their timeouts are as before.
C26_DisconnectedRelease ==
    [][\A c \in Callers :
          (pc[c] = "holding" /\ pc'[c] # "holding" /\ ~connected[got[c]])
          => LET b == got[c] IN
             /\ pc'[c] = "released"
             /\ b \notin busyBrowsers'
             /\ busyBrowsers' = busyBrowsers \ {b}
             /\ closeCalls'[b] = closeCalls[b] + 1
             /\ availableBrowsers' = availableBrowsers
             /\ b \notin Range(availableBrowsers')
             /\ waitingQueue' = waitingQueue
             /\ waitTimeouts' = waitTimeouts
             /\ \A d \in Callers : got'[d] # b
             /\ \A d \in Callers \ {c} : pc'[d] = pc[d]
      ]_vars

\* caller 1 released a browser that had crashed while caller 3 was queued:
\* caller 3 is still queued
C26_Witness ==
    /\ pc = <<"released", "holding", "waiting", "idle">>
    /\ ~connected[1] /\ closeCalls[1] = 1
    /\ busyBrowsers = {2}
    /\ waitingQueue = <<3>>
    /\ availableBrowsers = <<>>

C28_NoTimerAfterShutdown ==
    sd = "done" => \A b \in Workers : idleTimers[b] = 0

\* C29: a browser that a caller receives, from acquire() or through a handoff,
\* is connected at that moment and close() was never invoked on it.
C29_HandedOverAlive ==
    [][\A c \in Callers :
          (pc'[c] = "holding" /\ pc[c] # "holding")
          => /\ got'[c] \in Launched'
             /\ connected'[got'[c]]
             /\ closeCalls'[got'[c]] = 0
      ]_vars

\* a caller holds a reused browser after another browser was reclaimed and
\* closed
C29_Witness ==
    /\ sd = "none"
    /\ stats.destroyed = 1
    /\ \E c \in Callers :
          /\ pc[c] = "holding"
          /\ stats.reused = 1
          /\ closeCalls[got[c]] = 0
          /\ \E b \in Launched : b # got[c] /\ closeCalls[b] = 1

\* C30: a queued acquire() settles once: a rejected caller stays rejected and a
\* served one is never rejected; waitingQueue holds only callers that are
\* still pending and a timeout is armed only for a queued caller, so that a
\* browser enters busyBrowsers only for a caller that then holds it.
C30_SettlesOnce ==
    [][/\ \A c \in Callers :
             /\ pc[c] \in {"timeoutErr", "waiterRejected"} => pc'[c] = pc[c]
             /\ pc[c] = "holding" => pc'[c] \in {"holding", "released"}
       /\ \A c \in Range(waitingQueue') : pc'[c] = "waiting"
       /\ waitTimeouts' \subseteq Range(waitingQueue')
       /\ busyBrowsers' \subseteq {got'[d] : d \in {e \in Callers : pc'[e] = "holding"}}
      ]_vars

\* of two waiters the younger one timed out and the older one was served later
C30_Witness ==
    /\ pc = <<"released", "holding", "holding", "timeoutErr">>
    /\ stats.created = 2 /\ stats.reused = 0
    /\ waitingQueue = <<>>
    /\ waitTimeouts = {}
    /\ busyBrowsers = {1, 2}

\* C31: a second call of shutdown(), whenever it comes after the first,
\* invokes close() on no browser on which the first call has invoked it.
C31_ShutdownIdempotent ==
    [][(sdAgain # "settling" /\ sdAgain' = "settling")
       => \A b \in Workers : closeCalls[b] > 0 => closeCalls'[b] = closeCalls[b]
      ]_vars

\* C32: every retry of acquire() follows the removal of one disconnected
\* browser from availableBrowsers, which only a release() makes longer; so an
\* acquire() retries at most once per browser it finds there, and its last
\* attempt reuses or launches a browser, queues the caller or rejects.
C32_RetryTerminates ==
    [][/\ \A c \in Callers :
             /\ ((Acquire(c) \/ AcquireRetry(c)) /\ pc'[c] = "closing")
                => /\ availableBrowsers # <<>>
                   /\ ~connected[Last(availableBrowsers)]
                   /\ availableBrowsers' = Front(availableBrowsers)
                   /\ closeCalls'[Last(availableBrowsers)]
                        = closeCalls[Last(availableBrowsers)] + 1
                   /\ busyBrowsers' = busyBrowsers
                   /\ waitingQueue' = waitingQueue
                   /\ stats' = stats
             /\ (AcquireRetry(c) /\ pc'[c] # "closing")
                => pc'[c] \in {"holding", "creating", "waiting", "rejectedShutdown"}
       /\ Len(availableBrowsers') > Len(availableBrowsers)
          => \E c \in Callers : pc[c] = "holding" /\ pc'[c] = "released"
      ]_vars

\* both browsers of the pool had disconnected: the third caller discarded the
\* two of them, one per attempt, and then launched a new one
C32_Witness ==
    /\ sd = "none"
    /\ pc = <<"released", "released", "holding", "idle">>
    /\ got[3] = 3
    /\ closeCalls = <<1, 1, 0>>
    /\ stats = [created |-> 3, reused |-> 0, destroyed |-> 0, errors |-> 0]
    /\ availableBrowsers = <<>>
    /\ busyBrowsers = {3}

\* C33: a sweep runs only while the pool is not shutting down; it leaves the
\* first minPoolSize entries of availableBrowsers and invokes the destroy of
\* every other one (close() on each connected one), whether or not an idle
\* timer is still armed for it, and changes neither busyBrowsers nor
\* waitingQueue nor any caller.  Once shutdown has begun no sweep can act.
C33_SweepTrims ==
    [][/\ cleanupIdleBrowsers
          => /\ ~isShuttingDown
             /\ Len(availableBrowsers') <= minPoolSize
             /\ availableBrowsers' = SubSeq(availableBrowsers, 1, minPoolSize)
             /\ \A b \in Workers :
                   closeCalls'[b] = IF /\ b \in Range(availableBrowsers)
                                       /\ b \notin Range(availableBrowsers')
                                       /\ connected[b]
                                    THEN closeCalls[b] + 1
                                    ELSE closeCalls[b]
             /\ busyBrowsers' = busyBrowsers
             /\ waitingQueue' = waitingQueue
             /\ pc' = pc /\ got' = got
             /\ idleTimers' = idleTimers
       /\ isShuttingDown => ~ENABLED cleanupIdleBrowsers
      ]_vars

\* two browsers were released once each, and the sweep closed one of them
\* while the idle timer of its release was still armed
C33_Witness ==
    /\ sd = "none"
    /\ stats.created = 2 /\ stats.reused = 0
    /\ Len(availableBrowsers) = minPoolSize
    /\ busyBrowsers = {}
    /\ \E b \in 1..2 :
          /\ b \notin Range(availableBrowsers)
          /\ connected[b]
          /\ closeCalls[b] = 1
          /\ idleTimers[b] = 1

\* C34: when the idle timer of a browser's latest release fires and the
\* browser is still in availableBrowsers, the browser is removed and, being
\* connected, has close() invoked, also when it is the only available one.
C34_IdleWorkerReclaimed ==
    [][\A b \in Workers :
          ( /\ IdleTimerFires(b)
            /\ idleTimers[b] = 1
            /\ b \in Range(availableBrowsers) )
          => /\ b \notin Range(availableBrowsers')
             /\ connected[b] => closeCalls'[b] = closeCalls[b] + 1
      ]_vars

\* C35: a call of getStats() changes nothing of the pool and returns the four
\* counters with available, busy and waiting equal to the sizes of the three
\* collections at that moment and total = available + busy; and no step of
\* any operation makes one of the four counters smaller.
C35_StatsSnapshot ==
    [][/\ GetStats
          => /\ UNCHANGED <<availableBrowsers, busyBrowsers, waitingQueue, isShuttingDown,
                             stats, idleTimers, connected, closeCalls, pc, got, sd,
                             waitTimeouts>>
             /\ snapshot'.available = Len(availableBrowsers)
             /\ snapshot'.busy = Cardinality(busyBrowsers)
             /\ snapshot'.waiting = Len(waitingQueue)
             /\ snapshot'.total = snapshot'.available + snapshot'.busy
             /\ snapshot'.created = stats.created
             /\ snapshot'.reused = stats.reused
             /\ snapshot'.destroyed = stats.destroyed
             /\ snapshot'.errors = stats.errors
       /\ stats'.created >= stats.created
       /\ stats'.reused >= stats.reused
       /\ stats'.destroyed >= stats.destroyed
       /\ stats'.errors >= stats.errors
      ]_vars

\* getStats() was called with both browsers busy and a caller queued; the
\* pool has moved on since and the value returned then is what it was
C35_Witness ==
    /\ snapshot.waiting = 1
    /\ snapshot.busy = 2
    /\ snapshot.available = 0
    /\ snapshot.total = 2
    /\ snapshot.created = 2
    /\ waitingQueue = <<>>
    /\ busyBrowsers = {}
    /\ stats.reused = 0
    /\ stats.destroyed >= 1

====
